---------------------------- MODULE Spec2Model ----------------------------
(***************************************************************************)
(* push_schema.py: read instant-schema.json, keep the top-level "entities" *)
(* and "links", write them to standard output as JSON indented by two.     *)
(*                                                                         *)
(* Text (the file's content, standard output) is a sequence of lexical     *)
(* tokens, each a string: punctuation, the whitespace characters " " and   *)
(* "\n", string literals with their quotes, number literals and the        *)
(* literal names.  Python values are tagged tuples:                        *)
(*   <<"None">>  <<"bool", "True">>  <<"int", repr>>  <<"float", repr>>    *)
(*   <<"str", s>>  <<"list", <<v1, ...>>>>  <<"dict", <<<<k1, v1>>, ...>>>>*)
(* a dict keeps its insertion order, as Python's does.                     *)
(***************************************************************************)
EXTENDS Integers, Sequences, FiniteSets, TLC

\* ------------------------------------------------------------- bounds

\* Nesting depth of the values the generated documents hold under a key.
MaxDepth == 1
\* Length of the raw token sequences tried as file content.
MaxRawLen == 3
\* Number of runs of the program against the same filesystem.
MaxRuns == 2

\* ------------------------------------------------------ Python values

PyNone == <<"None">>
PyTrue == <<"bool", "True">>
PyFalse == <<"bool", "False">>
PyInt(r) == <<"int", r>>
PyFloat(r) == <<"float", r>>
PyStr(s) == <<"str", s>>
PyList(items) == <<"list", items>>
PyDict(pairs) == <<"dict", pairs>>
Unset == <<"unset">>

IsDict(v) == v[1] = "dict"
Keys(d) == [i \in 1..Len(d[2]) |-> d[2][i][1]]
HasKey(d, k) == \E i \in 1..Len(d[2]) : d[2][i][1] = k
GetItem(d, k) == d[2][CHOOSE i \in 1..Len(d[2]) : d[2][i][1] = k][2]

\* dict(pairs): a repeated key keeps its first position and its last value.
RECURSIVE dict(_, _)
dict(pairs, acc) ==
    IF pairs = <<>> THEN PyDict(acc)
    ELSE LET k == Head(pairs)[1]
             v == Head(pairs)[2]
         IN IF \E i \in 1..Len(acc) : acc[i][1] = k
            THEN dict(Tail(pairs),
                      [i \in 1..Len(acc) |->
                          IF acc[i][1] = k THEN <<k, v>> ELSE acc[i]])
            ELSE dict(Tail(pairs), Append(acc, <<k, v>>))

\* ----------------------------------------------------- lexical tables

WHITESPACE == {" ", "\n"}
StrToks == {"\"entities\"", "\"links\"", "\"extra\"", "\"a\"", "\"\\u0061\""}
NumToks == {"0", "-0", "10.0", "1e1"}
ConstToks == {"NaN", "Infinity", "-Infinity"}

\* py_scanstring: the str a string literal denotes (escapes decoded).
scanstring(t) ==
    CASE t = "\"entities\"" -> "entities"
      [] t = "\"links\"" -> "links"
      [] t = "\"extra\"" -> "extra"
      [] t = "\"a\"" -> "a"
      [] t = "\"\\u0061\"" -> "a"

\* NUMBER_RE match: int(text) without fraction or exponent, else float(text).
match_number(t) ==
    CASE t = "0" -> PyInt("0")
      [] t = "-0" -> PyInt("0")
      [] t = "10.0" -> PyFloat("10.0")
      [] t = "1e1" -> PyFloat("10.0")

\* parse_constant, json.load's default: the three names are accepted.
parse_constant(t) ==
    CASE t = "NaN" -> PyFloat("nan")
      [] t = "Infinity" -> PyFloat("inf")
      [] t = "-Infinity" -> PyFloat("-inf")

\* encode_basestring_ascii: the literal json.dumps writes for a str.
encode_basestring_ascii(s) ==
    CASE s = "entities" -> "\"entities\""
      [] s = "links" -> "\"links\""
      [] s = "extra" -> "\"extra\""
      [] s = "a" -> "\"a\""

\* int.__repr__
intstr(r) == r

\* floatstr with allow_nan=True, json.dumps's default.
floatstr(r) ==
    CASE r = "nan" -> "NaN"
      [] r = "inf" -> "Infinity"
      [] r = "-inf" -> "-Infinity"
      [] OTHER -> r

\* ---------------------------------------------------------- json.load

Ok(v, i) == <<"ok", v, i>>
Err == <<"err">>
IsOk(r) == r[1] = "ok"

\* WHITESPACE.match: the decoder skips whitespace between any two tokens.
skip_ws(s) == SelectSeq(s, LAMBDA c : c \notin WHITESPACE)

RECURSIVE scan_once(_, _, _), JSONObject(_, _, _, _), JSONArray(_, _, _, _)
RECURSIVE ObjectRest(_, _, _, _, _), ArrayRest(_, _, _, _)

\* scan_once(s, i): the value starting at s[i] and the index after it.
\* `consts` is parse_constant's domain: ConstToks for json.load.
scan_once(s, i, consts) ==
    IF i > Len(s) THEN Err
    ELSE LET c == s[i]
         IN CASE c \in StrToks -> Ok(PyStr(scanstring(c)), i + 1)
              [] c = "{" -> JSONObject(s, i + 1, consts, <<>>)
              [] c = "[" -> JSONArray(s, i + 1, consts, <<>>)
              [] c = "null" -> Ok(PyNone, i + 1)
              [] c = "true" -> Ok(PyTrue, i + 1)
              [] c = "false" -> Ok(PyFalse, i + 1)
              [] c \in NumToks -> Ok(match_number(c), i + 1)
              [] c \in consts -> Ok(parse_constant(c), i + 1)
              [] OTHER -> Err

\* The members of an object after the value of a member was scanned:
\* r is scan_once's result, ps the pairs before it, key the member's key.
ObjectRest(s, consts, ps, key, r) ==
    IF ~IsOk(r) \/ r[3] > Len(s) THEN Err
    ELSE IF s[r[3]] = "}"
         THEN Ok(dict(Append(ps, <<key, r[2]>>), <<>>), r[3] + 1)
    ELSE IF s[r[3]] # "," THEN Err
    ELSE JSONObject(s, r[3] + 1, consts, Append(ps, <<key, r[2]>>))

\* JSONObject after "{" (pairs = <<>>) or after "," (pairs # <<>>).
JSONObject(s, i, consts, pairs) ==
    IF i > Len(s) THEN Err
    ELSE IF s[i] = "}" /\ pairs = <<>> THEN Ok(PyDict(<<>>), i + 1)
    ELSE IF s[i] \notin StrToks THEN Err
    ELSE IF i + 1 > Len(s) \/ s[i + 1] # ":" THEN Err
    ELSE CHOOSE res \in {ObjectRest(s, consts, pairs, scanstring(s[i]), r) :
                            r \in {scan_once(s, i + 2, consts)}} : TRUE

\* The items of an array after an item was scanned.
ArrayRest(s, consts, vs, r) ==
    IF ~IsOk(r) \/ r[3] > Len(s) THEN Err
    ELSE IF s[r[3]] = "]" THEN Ok(PyList(Append(vs, r[2])), r[3] + 1)
    ELSE IF s[r[3]] # "," THEN Err
    ELSE JSONArray(s, r[3] + 1, consts, Append(vs, r[2]))

\* JSONArray after "[" (values = <<>>) or after "," (values # <<>>).
JSONArray(s, i, consts, values) ==
    IF i > Len(s) THEN Err
    ELSE IF s[i] = "]" /\ values = <<>> THEN Ok(PyList(<<>>), i + 1)
    ELSE CHOOSE res \in {ArrayRest(s, consts, values, r) :
                            r \in {scan_once(s, i, consts)}} : TRUE

\* The end of the document: nothing but whitespace follows the value.
DecodeEnd(s, r) ==
    IF IsOk(r) /\ r[3] = Len(s) + 1 THEN Ok(r[2], r[3]) ELSE Err

\* JSONDecoder.decode: one value, then only whitespace ("Extra data").
decode(text, consts) ==
    CHOOSE res \in {DecodeEnd(s, scan_once(s, 1, consts)) :
                       s \in {skip_ws(text)}} : TRUE

\* json.loads with the defaults json.load passes down.
loads(text) == decode(text, ConstToks)

\* --------------------------------------------------------- json.dumps

\* The indent argument of json.dumps.
indent == 2

newline_indent(level) == <<"\n">> \o [i \in 1..(indent * level) |-> " "]
item_separator(level) == <<",">> \o newline_indent(level)
key_separator == <<":", " ">>

RECURSIVE iterencode(_, _), iterencode_list(_, _, _), iterencode_dict(_, _, _)

\* _iterencode(o, level): the tokens of o at nesting level `level`.
iterencode(o, level) ==
    CASE o[1] = "str" -> <<encode_basestring_ascii(o[2])>>
      [] o[1] = "None" -> <<"null">>
      [] o[1] = "bool" -> IF o = PyTrue THEN <<"true">> ELSE <<"false">>
      [] o[1] = "int" -> <<intstr(o[2])>>
      [] o[1] = "float" -> <<floatstr(o[2])>>
      [] o[1] = "list" ->
            IF o[2] = <<>> THEN <<"[", "]">>
            ELSE <<"[">> \o newline_indent(level + 1)
                 \o iterencode_list(o[2], 1, level + 1)
                 \o newline_indent(level) \o <<"]">>
      [] o[1] = "dict" ->
            IF o[2] = <<>> THEN <<"{", "}">>
            ELSE <<"{">> \o newline_indent(level + 1)
                 \o iterencode_dict(o[2], 1, level + 1)
                 \o newline_indent(level) \o <<"}">>

iterencode_list(lst, k, level) ==
    iterencode(lst[k], level)
    \o (IF k = Len(lst) THEN <<>>
        ELSE item_separator(level) \o iterencode_list(lst, k + 1, level))

iterencode_dict(dct, k, level) ==
    <<encode_basestring_ascii(dct[k][1])>> \o key_separator
    \o iterencode(dct[k][2], level)
    \o (IF k = Len(dct) THEN <<>>
        ELSE item_separator(level) \o iterencode_dict(dct, k + 1, level))

\* json.dumps(obj, indent=2)
dumps(obj) == iterencode(obj, 0)

\* ------------------------------------------------- the input domain

SchemaPath == "instant-schema.json"
Paths == {SchemaPath, "package.json", "schema-additions.json"}

\* A file system entry: <<kind, content>>.
Absent == <<"absent", <<>>>>
Directory == <<"dir", <<>>>>
File(content) == <<"file", content>>
NoPerm(content) == <<"noperm", content>>

Leaves == {PyNone, PyTrue, PyInt("0"), PyFloat("10.0"), PyStr("a"),
           PyFloat("nan")}

\* The values of nesting depth at most d that the documents hold.
RECURSIVE Vals(_)
Vals(d) ==
    IF d = 0 THEN Leaves
    ELSE LET below == Vals(d - 1)
         IN below
            \cup {PyList(<<>>), PyDict(<<>>), PyList(<<PyFalse>>)}
            \cup {PyList(<<PyNone, v>>) : v \in below}
            \cup {PyDict(<<<<"links", PyNone>>, <<"entities", v>>>>) :
                    v \in below}

\* The value under "extra": it nests keys named like the projected ones.
ExtraValue == PyDict(<<<<"entities", PyStr("a")>>, <<"links", PyList(<<>>)>>>>)

\* The orders in which a document holds its top-level keys.
Layouts ==
    {<<"entities", "links">>, <<"links", "entities">>,
     <<"entities", "links", "extra">>, <<"extra", "links", "entities">>,
     <<"links", "extra", "entities">>, <<"entities", "extra", "links">>,
     <<>>, <<"extra">>, <<"entities">>, <<"links">>,
     <<"extra", "entities">>, <<"links", "extra">>}

Document(layout, E, L) ==
    PyDict([i \in 1..Len(layout) |->
              <<layout[i],
                CASE layout[i] = "entities" -> E
                  [] layout[i] = "links" -> L
                  [] OTHER -> ExtraValue>>])

\* The documents: one of the two projected values is a leaf.
ValuePairs ==
    {p \in Vals(MaxDepth) \X Vals(MaxDepth) :
        p[1] \in Leaves \/ p[2] \in Leaves}
Docs == {Document(lay, p[1], p[2]) : lay \in Layouts, p \in ValuePairs}

Styles == {"compact", "spaced"}

\* How a writer of the file spells a scalar: "spaced" writers use the
\* other spelling of the same value where JSON has one.
Spell(v, style) ==
    CASE v = PyNone -> "null"
      [] v = PyTrue -> "true"
      [] v = PyFalse -> "false"
      [] v = PyInt("0") -> IF style = "compact" THEN "0" ELSE "-0"
      [] v = PyFloat("10.0") -> IF style = "compact" THEN "10.0" ELSE "1e1"
      [] v = PyStr("a") ->
            IF style = "compact" THEN "\"a\"" ELSE "\"\\u0061\""
      [] v = PyFloat("nan") -> "NaN"

Quote(k) ==
    CASE k = "entities" -> "\"entities\""
      [] k = "links" -> "\"links\""
      [] k = "extra" -> "\"extra\""
      [] k = "a" -> "\"a\""

Sep(style) == IF style = "compact" THEN <<>> ELSE <<" ">>

\* The text of value v as a writer of style `style` puts it in the file.
RECURSIVE Render(_, _), RenderItems(_, _, _)
Render(v, style) ==
    CASE v[1] = "list" -> <<"[">> \o RenderItems(v, 1, style) \o <<"]">>
      [] v[1] = "dict" -> <<"{">> \o RenderItems(v, 1, style) \o <<"}">>
      [] OTHER -> <<Spell(v, style)>>

RenderItems(v, k, style) ==
    IF k > Len(v[2]) THEN <<>>
    ELSE (IF k > 1 THEN <<",">> \o Sep(style) ELSE <<>>)
         \o (IF v[1] = "dict"
             THEN <<Quote(v[2][k][1]), ":">> \o Sep(style)
                  \o Render(v[2][k][2], style)
             ELSE Render(v[2][k], style))
         \o RenderItems(v, k + 1, style)

FileText(d, style) ==
    Render(d, style) \o (IF style = "compact" THEN <<>> ELSE <<"\n">>)

\* Raw content: every token sequence of length at most MaxRawLen.
RawToks == {"{", "}", "[", "]", ",", "\"entities\"", "0", "null", "NaN"}
RECURSIVE SeqsUpTo(_, _)
SeqsUpTo(S, n) ==
    IF n = 0 THEN {<<>>}
    ELSE LET shorter == SeqsUpTo(S, n - 1)
         IN shorter \cup {Append(s, t) : s \in {r \in shorter : Len(r) = n - 1}, t \in S}
RawTexts == SeqsUpTo(RawToks, MaxRawLen)

\* A document cut short, as a file whose writer was interrupted.
CutDoc == Document(<<"entities", "links">>, PyList(<<PyNone, PyInt("0")>>), PyStr("a"))
CutTexts ==
    UNION {{SubSeq(FileText(CutDoc, st), 1, n) \o tail :
              n \in 1..Len(FileText(CutDoc, st)), tail \in {<<>>, <<"}">>}}
           \ {FileText(CutDoc, st)} : st \in Styles}

\* What the strict grammar of RFC 8259 accepts: no NaN, no Infinity.
IsValidJSON(text) == IsOk(decode(text, {}))

\* ------------------------------------------------------------- state

VARIABLES
    fs,         \* the file system: path -> <<kind, content>>
    fs0,        \* the file system before the first run
    doc,        \* the value the file's writer serialised, Unset for raw text
    run,        \* number of the current run
    results,    \* the outcomes of the runs that ended
    pc,         \* the statement the interpreter is at
    handle,     \* the file object of open(): "none", "open", "closed"
    schema,     \* the module's global `schema`
    stack,      \* the operands of the dict display evaluated so far
    additions,  \* the module's global `additions`
    text,       \* the str json.dumps returned
    stdout,     \* what the run wrote to standard output
    exc,        \* the exception that ended the run, or "none"
    status,     \* the exit status, -1 while the run lasts
    trace       \* the run's system calls, in order

vars == <<fs, fs0, doc, run, results, pc, handle, schema, stack, additions,
          text, stdout, exc, status, trace>>

\* The files beside the schema file, the same in every initial state.
Others(path) ==
    IF path = "package.json" THEN File(<<"{", "}">>) ELSE Absent

SchemaFiles ==
    {Absent, Directory, NoPerm(<<"{", "}">>)}
    \cup {File(t) : t \in RawTexts \cup CutTexts}

Fresh ==
    /\ pc = "open"
    /\ handle = "none"
    /\ schema = Unset
    /\ stack = <<>>
    /\ additions = Unset
    /\ text = <<>>
    /\ stdout = <<>>
    /\ exc = "none"
    /\ status = -1
    /\ trace = <<>>

Init ==
    /\ \/ /\ doc = Unset
          /\ \E f \in SchemaFiles :
                fs = [p \in Paths |-> IF p = SchemaPath THEN f ELSE Others(p)]
       \/ /\ doc \in Docs
          /\ \E st \in Styles :
                fs = [p \in Paths |->
                        IF p = SchemaPath THEN File(FileText(doc, st))
                        ELSE Others(p)]
    /\ fs0 = fs
    /\ run = 1
    /\ results = <<>>
    /\ Fresh

\* ------------------------------------------------------- the program

\* open('instant-schema.json', 'w')
OpenModeW == "w"

\* open('instant-schema.json', 'x')
OpenModeX == "x"

\* The mode of open('instant-schema.json'): the default, 'r'.
OpenMode == "r"

\* open() that creates a missing file in every mode, as mode 'a+' does.
open_exc_create(f, mode) ==
    CASE f[1] = "dir" -> "IsADirectoryError"
      [] f[1] = "noperm" -> "PermissionError"
      [] OTHER -> "none"

\* open(path, mode): the exception it raises on entry f, or "none".
open_exc(f, mode) ==
    CASE f[1] = "dir" -> "IsADirectoryError"
      [] f[1] = "noperm" -> "PermissionError"
      [] f[1] = "absent" /\ mode = "r" -> "FileNotFoundError"
      [] f[1] = "file" /\ mode = "x" -> "FileExistsError"
      [] OTHER -> "none"

\* open(path, mode): the entry it leaves; 'w' and 'x' create, 'w' truncates.
open_entry(f, mode) ==
    IF open_exc(f, mode) = "none" /\ mode # "r" THEN File(<<>>) ELSE f

OSErrors == {"FileNotFoundError", "PermissionError", "IsADirectoryError",
             "FileExistsError"}

\* schema.get(key) in place of schema[key]: None for a missing key.
subscript_get(obj, key) ==
    IF ~IsDict(obj) THEN <<"AttributeError", Unset>>
    ELSE IF ~HasKey(obj, key) THEN <<"none", PyNone>>
    ELSE <<"none", GetItem(obj, key)>>

\* Every failed subscription taken for a failed key lookup.
subscript_lookup(obj, key) ==
    IF ~IsDict(obj) \/ ~HasKey(obj, key) THEN <<"KeyError", Unset>>
    ELSE <<"none", GetItem(obj, key)>>

\* obj[key]: <<the exception raised or "none", the value>>.  Only a dict
\* takes a str subscript; a dict without the key raises KeyError.
subscript(obj, key) ==
    IF ~IsDict(obj) THEN <<"TypeError", Unset>>
    ELSE IF ~HasKey(obj, key) THEN <<"KeyError", Unset>>
    ELSE <<"none", GetItem(obj, key)>>

\* The two values under each other's key.
AdditionsSwapped(e, l) == PyDict(<<<<"entities", l>>, <<"links", e>>>>)

\* The two entries in the other order.
AdditionsLinksFirst(e, l) == PyDict(<<<<"links", l>>, <<"entities", e>>>>)

\* The dict display of lines 5-8, from its two evaluated operands.
Additions(e, l) == PyDict(<<<<"entities", e>>, <<"links", l>>>>)

\* An uncaught exception: the traceback goes to standard error, and the
\* interpreter goes on to exit.
Raise(kind) ==
    /\ exc' = kind
    /\ pc' = "exit"

\* open('instant-schema.json')
Open ==
    /\ pc = "open"
    /\ LET f == fs[SchemaPath]
           e == open_exc(f, OpenMode)
       IN /\ fs' = [fs EXCEPT ![SchemaPath] = open_entry(f, OpenMode)]
          /\ trace' = Append(trace, "open")
          /\ IF e = "none"
             THEN /\ handle' = "open"
                  /\ pc' = "load"
                  /\ exc' = exc
             ELSE /\ handle' = handle
                  /\ Raise(e)
    /\ UNCHANGED <<fs0, doc, run, results, schema, stack, additions, text,
                   stdout, status>>

\* schema = json.load(fp): fp.read(), then json.loads of what was read.
Load ==
    /\ pc = "load"
    /\ IF OpenMode # "r"
       THEN /\ Raise("UnsupportedOperation")
            /\ UNCHANGED <<schema, trace>>
       ELSE LET r == loads(fs[SchemaPath][2])
            IN /\ trace' = Append(trace, "read")
               /\ IF IsOk(r)
                  THEN /\ schema' = r[2]
                       /\ pc' = "entities"
                       /\ exc' = exc
                  ELSE /\ schema' = schema
                       /\ Raise("JSONDecodeError")
    /\ UNCHANGED <<fs, fs0, doc, run, results, handle, stack, additions,
                   text, stdout, status>>

\* schema["entities"], the first operand of the dict display.
GetEntities ==
    /\ pc = "entities"
    /\ LET r == subscript(schema, "entities")
           e == r[1]
       IN IF e = "none"
          THEN /\ stack' = <<r[2]>>
               /\ pc' = "links"
               /\ exc' = exc
          ELSE /\ stack' = stack
               /\ Raise(e)
    /\ UNCHANGED <<fs, fs0, doc, run, results, handle, schema, additions,
                   text, stdout, status, trace>>

\* schema["links"], the second operand; then additions = {...}.
GetLinks ==
    /\ pc = "links"
    /\ LET r == subscript(schema, "links")
           e == r[1]
       IN IF e = "none"
          THEN /\ additions' = Additions(stack[1], r[2])
               /\ stack' = <<>>
               /\ pc' = "dumps"
               /\ exc' = exc
          ELSE /\ UNCHANGED <<additions, stack>>
               /\ Raise(e)
    /\ UNCHANGED <<fs, fs0, doc, run, results, handle, schema, text, stdout,
                   status, trace>>

\* json.dumps(additions, indent=2), the argument of print.
Dumps ==
    /\ pc = "dumps"
    /\ text' = dumps(additions)
    /\ pc' = "print"
    /\ UNCHANGED <<fs, fs0, doc, run, results, handle, schema, stack,
                   additions, stdout, exc, status, trace>>

\* print(text): the text and a newline, to standard output.
WriteStdout ==
    /\ pc = "print"
    /\ stdout' = stdout \o text \o <<"\n">>
    /\ trace' = Append(trace, "write")
    /\ pc' = "exit"
    /\ UNCHANGED <<fs, fs0, doc, run, results, handle, schema, stack,
                   additions, text, exc, status>>

\* The file object is referenced by nothing once json.load has returned:
\* the implementation may finalise it, closing the handle, at any moment
\* from then on (CPython does so at once, others at a collection).
Finalize ==
    /\ handle = "open"
    /\ schema # Unset
    /\ pc # "exited"
    /\ handle' = "closed"
    /\ trace' = Append(trace, "close")
    /\ UNCHANGED <<fs, fs0, doc, run, results, pc, schema, stack, additions,
                   text, stdout, exc, status>>

\* A handle that outlives the run.
AtExitLeak(h) == h

\* What the end of the process does to the handle: whatever is open closes.
AtExit(h) == IF h = "open" THEN "closed" ELSE h

\* Every exception swallowed: the process always reports success.
ExitStatusZero(e) == 0

\* The exit status: 0 at the end of the module, 1 after a traceback.
ExitStatus(e) == IF e = "none" THEN 0 ELSE 1

\* The end of the module, or of the traceback: the process exits.
Exit ==
    /\ pc = "exit"
    /\ status' = ExitStatus(exc)
    /\ handle' = AtExit(handle)
    /\ trace' = IF handle = "open" /\ AtExit(handle) = "closed"
                THEN Append(trace, "close") ELSE trace
    /\ pc' = "exited"
    /\ UNCHANGED <<fs, fs0, doc, run, results, schema, stack, additions,
                   text, stdout, exc>>

\* What a run leaves to its caller.
Outcome == <<exc, status, stdout>>

\* The program is run again, a new process on the same file system.
Rerun ==
    /\ pc = "exited"
    /\ run < MaxRuns
    /\ run' = run + 1
    /\ results' = Append(results, Outcome)
    /\ pc' = "open"
    /\ handle' = "none"
    /\ schema' = Unset
    /\ stack' = <<>>
    /\ additions' = Unset
    /\ text' = <<>>
    /\ stdout' = <<>>
    /\ exc' = "none"
    /\ status' = -1
    /\ trace' = <<>>
    /\ UNCHANGED <<fs, fs0, doc>>

Next ==
    \/ Open
    \/ Load
    \/ GetEntities
    \/ GetLinks
    \/ Dumps
    \/ WriteStdout
    \/ Finalize
    \/ Exit
    \/ Rerun

Spec == Init /\ [][Next]_vars


\* ------------------------------------------------------------ claims

InputEntry == fs0[SchemaPath]
InputText == InputEntry[2]
IsFile == InputEntry[1] = "file"
Terminal == pc = "exited"
Count(seq, x) == Cardinality({i \in 1..Len(seq) : seq[i] = x})

\* The input is a document with both keys, and valid JSON.
HoldsBoth ==
    /\ doc # Unset
    /\ HasKey(doc, "entities")
    /\ HasKey(doc, "links")
    /\ IsValidJSON(InputText)

TopKeyPlaces(t) ==
    {i \in (indent + 2)..(Len(t) - 1) :
        /\ t[i] \in StrToks
        /\ t[i + 1] = ":"
        /\ \A k \in 1..indent : t[i - k] = " "
        /\ t[i - indent - 1] = "\n"}

\* C2: the output of a successful run is a mapping of exactly two
\* entries, "entities" first and "links" second, whatever the order of
\* the keys in the file; no other top-level key of the file is in it.
C2_TwoEntriesInOrder ==
    Terminal /\ status = 0 =>
        LET r == loads(stdout)
            places == TopKeyPlaces(stdout)
        IN /\ IsOk(r)
           /\ IsDict(r[2])
           /\ Keys(r[2]) = <<"entities", "links">>
           /\ Cardinality(places) = 2
           /\ \A i, j \in places :
                i < j => stdout[i] = "\"entities\"" /\ stdout[j] = "\"links\""

\* A successful run on a file that holds "links" first and "extra" too.
C2_Witness ==
    /\ Terminal
    /\ status = 0
    /\ doc # Unset
    /\ Keys(doc) = <<"links", "extra", "entities">>

\* The input parses to an object without "entities" or without "links".
LacksKey ==
    /\ IsFile
    /\ LET r == loads(InputText)
       IN /\ IsOk(r)
          /\ IsDict(r[2])
          /\ ~(HasKey(r[2], "entities") /\ HasKey(r[2], "links"))

\* C3: when the file parses to an object that lacks "entities", "links"
\* or both, nothing is ever written to standard output and the run ends
\* with a KeyError; also when only "links" is missing.
C3_MissingKeyIsKeyError ==
    LacksKey =>
        /\ stdout = <<>>
        /\ Count(trace, "write") = 0
        /\ Terminal => exc = "KeyError" /\ status # 0

\* A run ended by the second lookup: "entities" was found, "links" not.
C3_Witness ==
    /\ LacksKey
    /\ Terminal
    /\ exc = "KeyError"
    /\ Len(stack) = 1
    /\ HasKey(schema, "entities")
    /\ ~HasKey(schema, "links")

\* The input is valid JSON whose root is no object.
NonObjectRoot ==
    /\ IsFile
    /\ LET r == decode(InputText, {})
       IN IsOk(r) /\ ~IsDict(r[2])

\* C4, as claimed: when the file is valid JSON whose root is not an
\* object, the run writes nothing and ends with the error kind of a
\* missing key, a key-lookup error.
C4_NonObjectIsKeyError ==
    NonObjectRoot =>
        /\ stdout = <<>>
        /\ Terminal => exc = "KeyError" /\ status # 0

\* C4, amended: when the file is valid JSON whose root is not an object,
\* the run writes nothing and ends with a TypeError, which is not the
\* error kind (KeyError) of an object that lacks a key.
C4_NonObjectIsTypeError ==
    NonObjectRoot =>
        /\ stdout = <<>>
        /\ Count(trace, "write") = 0
        /\ Terminal => exc = "TypeError" /\ exc # "KeyError" /\ status # 0

\* A run ended on a file whose root is an array.
C4_Witness ==
    /\ NonObjectRoot
    /\ Terminal
    /\ schema[1] = "list"
    /\ exc = "TypeError"

\* C5: when the content of the file is not valid JSON, the run ends with
\* a parse error before any key lookup, and writes nothing to standard
\* output.
C5_InvalidJSONIsParseError ==
    IsFile /\ ~IsValidJSON(InputText) =>
        /\ schema = Unset
        /\ stdout = <<>>
        /\ Terminal => exc = "JSONDecodeError" /\ status # 0

\* The file is missing, or cannot be read.
Unreadable == InputEntry[1] \in {"absent", "noperm", "dir"}

\* C6: when the file is missing or unreadable, the run ends with a
\* file-system error that nothing recovers: open is tried once, nothing
\* is read or parsed, no value stands in for the schema, and nothing is
\* written to standard output.
C6_UnreadableIsOSError ==
    Unreadable =>
        /\ schema = Unset
        /\ stdout = <<>>
        /\ handle = "none"
        /\ Count(trace, "open") <= 1
        /\ Count(trace, "read") = 0
        /\ Count(trace, "write") = 0
        /\ Terminal => exc \in OSErrors /\ status # 0

\* A run ended on a file the process may not read.
C6_Witness ==
    /\ Unreadable
    /\ Terminal
    /\ exc = "PermissionError"
    /\ trace = <<"open">>

\* The steps a state is from the end of the last run, at most.
PcRank ==
    CASE pc = "open" -> 7
      [] pc = "load" -> 6
      [] pc = "entities" -> 5
      [] pc = "links" -> 4
      [] pc = "dumps" -> 3
      [] pc = "print" -> 2
      [] pc = "exit" -> 1
      [] pc = "exited" -> 0
Rank ==
    (MaxRuns - run) * 20 + 2 * PcRank + (IF handle = "open" THEN 1 ELSE 0)

\* The two outcomes of a run, what standard output may hold and when, and
\* that a run which has not ended can take a step.
C7_Outcomes ==
    /\ Terminal =>
          \/ /\ status = 0
             /\ exc = "none"
             /\ stdout = dumps(additions) \o <<"\n">>
             /\ IsOk(loads(stdout))
          \/ /\ status # 0
             /\ exc # "none"
             /\ stdout = <<>>
    /\ stdout # <<>> =>
          /\ stdout = dumps(additions) \o <<"\n">>
          /\ Count(trace, "write") = 1
          /\ \E i, j, k \in 1..Len(trace) :
                /\ i < j /\ j < k
                /\ trace[i] = "open" /\ trace[j] = "read"
                /\ trace[k] = "write"
          /\ IsDict(schema)
          /\ additions =
                Additions(GetItem(schema, "entities"), GetItem(schema, "links"))
    /\ stdout = <<>> => Count(trace, "write") = 0
    /\ ~Terminal => ENABLED Next
    /\ Rank >= 0

\* C7: every run ends, since each step brings the run nearer its end and
\* a run that has not ended has a next step; it ends either with status 0
\* and the whole projection on standard output, or with another status
\* and nothing on it.  Standard output never holds a part of the
\* projection, and the one write to it comes after the file was opened,
\* read and parsed and both keys were found.
C7_AllOrNothing == [](C7_Outcomes) /\ [][Rank' < Rank]_vars

\* The second run ended with success, the whole projection on standard
\* output and the handle closed.
C7_Witness ==
    /\ Terminal
    /\ Len(results) = 1
    /\ status = 0
    /\ stdout # <<>>
    /\ Count(trace, "close") = 1

C9_NoOtherEffect ==
    /\ fs = fs0
    /\ Count(trace, "open") <= 1
    /\ Count(trace, "read") <= 1
    /\ Count(trace, "write") <= 1
    /\ \A i \in 1..Len(trace) : trace[i] \in {"open", "read", "close", "write"}

\* The last run ended after reading the file and writing its output.
C9_Witness ==
    /\ Terminal
    /\ run = MaxRuns
    /\ Count(trace, "read") = 1
    /\ Count(trace, "write") = 1

=============================================================================
